---- MODULE Spec2Model ----
(***************************************************************************)
(* simple-expr-parser: the recursive-descent parser of src/parse.rs as a   *)
(* step machine over a text cursor, and the evaluator of src/structures.rs *)
(* (two-pass precedence resolution over exact checked rationals).          *)
(***************************************************************************)
EXTENDS Integers, Sequences, FiniteSets, TLC

(***************************************************************************)
(* Bounds of the model.                                                    *)
(***************************************************************************)
\* longest input text, in characters
MaxLen == 5
\* largest value of the unsigned integer domain (u64::MAX scaled down)
UMax == 15
\* most operands of the top-level group that is evaluated
MaxOperands == 3

(***************************************************************************)
(* Characters.  A character is a string naming a Unicode scalar value;     *)
(* "IDSP" is U+3000 IDEOGRAPHIC SPACE (whitespace, 3 bytes in UTF-8) and   *)
(* "EACUTE" is U+00E9 (not whitespace, 2 bytes).                           *)
(***************************************************************************)
Digits == {"0", "1", "2", "3", "4", "5", "6", "7", "8", "9"}
Alphabet == {"1", "+", "(", ")", " ", "IDSP", "EACUTE"}

\* a cursor that counts characters instead of bytes
len_utf8_one(c) == 1
len_utf8(c) == IF c = "IDSP" THEN 3 ELSE IF c = "EACUTE" THEN 2 ELSE 1
is_whitespace(c) == c \in {" ", "IDSP"}
is_ascii_digit(c) == c \in Digits
DigitValue(c) ==
  CASE c = "0" -> 0 [] c = "1" -> 1 [] c = "2" -> 2 [] c = "3" -> 3
    [] c = "4" -> 4 [] c = "5" -> 5 [] c = "6" -> 6 [] c = "7" -> 7
    [] c = "8" -> 8 [] c = "9" -> 9

(***************************************************************************)
(* Operator, Expression, Parentheses (structures.rs).                      *)
(***************************************************************************)
Operators == {"Add", "Sub", "Mul", "Div"}

\* Operator::from_char; "None" stands for Option::None
from_char(c) ==
  CASE c = "+" -> "Add" [] c = "-" -> "Sub" [] c = "*" -> "Mul"
    [] c = "/" -> "Div" [] OTHER -> "None"

\* every operator in the Add/Sub tier
precedence_flat(op) == 1
\* the two tiers exchanged
precedence_swapped(op) == IF op \in {"Mul", "Div"} THEN 1 ELSE 0
precedence(op) == IF op \in {"Mul", "Div"} THEN 0 ELSE 1

\* Expression::Num(value)
Num(v) == [tag |-> "Num", value |-> v, exprs |-> <<>>, operators |-> <<>>]
\* the unwinding of panic!() in Parentheses::new
PanicTree == [tag |-> "Panic", value |-> 0, exprs |-> <<>>, operators |-> <<>>]
\* placeholder where no tree is carried
NoTree == [tag |-> "None", value |-> 0, exprs |-> <<>>, operators |-> <<>>]

\* Parentheses::new, wrapped by Expression::from
Parentheses_new(exprs, operators) ==
  IF Len(exprs) # Len(operators) + 1
  THEN PanicTree
  ELSE [tag |-> "Parentheses", value |-> 0, exprs |-> exprs,
        operators |-> operators]

(***************************************************************************)
(* The cursor (parse.rs): next and skip_whitespace call each other.        *)
(* A cursor is [text, offset, ok]; ok = FALSE is the panic of unwrap() on  *)
(* an exhausted text.                                                      *)
(***************************************************************************)
RECURSIVE next(_, _), skip_whitespace(_, _)
\* a next() that leaves the whitespace after the character in place
next_noskip(text, offset) ==
  IF text = <<>>
  THEN [text |-> text, offset |-> offset, ok |-> FALSE]
  ELSE [text |-> Tail(text), offset |-> offset + len_utf8(Head(text)), ok |-> TRUE]

next(text, offset) ==
  IF text = <<>>
  THEN [text |-> text, offset |-> offset, ok |-> FALSE]
  ELSE skip_whitespace(Tail(text), offset + len_utf8(Head(text)))

skip_whitespace(text, offset) ==
  IF text # <<>> /\ is_whitespace(Head(text))
  THEN next(text, offset)
  ELSE [text |-> text, offset |-> offset, ok |-> TRUE]

\* str::parse::<u64> on a run of ASCII digits: -1 stands for Err
RECURSIVE parse_u64_from(_, _)
parse_u64_from(acc, digits) ==
  IF digits = <<>> THEN acc
  ELSE LET v == acc * 10 + DigitValue(Head(digits))
       IN  IF v > UMax THEN -1 ELSE parse_u64_from(v, Tail(digits))
parse_u64(digits) == IF digits = <<>> THEN -1 ELSE parse_u64_from(0, digits)

(***************************************************************************)
(* ParseError / ParseResult, uniform records.                              *)
(***************************************************************************)
NoResult == [kind |-> "None", tree |-> NoTree, ch |-> "None", off |-> 0, lit |-> <<>>]
OkTree(t) == [NoResult EXCEPT !.kind = "Ok", !.tree = t]
ExceptedExpr(c, o) == [NoResult EXCEPT !.kind = "ExceptedExpr", !.ch = c, !.off = o]
ExceptedOp(c, o) == [NoResult EXCEPT !.kind = "ExceptedOp", !.ch = c, !.off = o]
InvalidCloseParenthese(o) == [NoResult EXCEPT !.kind = "InvalidCloseParenthese", !.off = o]
UncloseParentheses == [NoResult EXCEPT !.kind = "UncloseParentheses"]
ParseOverflow(n) == [NoResult EXCEPT !.kind = "Overflow", !.lit = n]

(***************************************************************************)
(* Checked arithmetic of the unsigned integer domain 0..UMax.              *)
(* -1 stands for None.                                                     *)
(***************************************************************************)
u_checked_add(a, b) == IF a + b > UMax THEN -1 ELSE a + b
u_checked_sub(a, b) == IF a < b THEN -1 ELSE a - b
u_checked_mul(a, b) == IF a * b > UMax THEN -1 ELSE a * b

RECURSIVE gcd(_, _)
gcd(a, b) == IF b = 0 THEN a ELSE gcd(b, a % b)

(***************************************************************************)
(* Ratio<u64> of num-rational, the magnitude inside Fraction::Rational.    *)
(* A ratio is [numer, denom]; NoneRatio stands for Option::None.           *)
(***************************************************************************)
NoneRatio == [numer |-> -1, denom |-> -1]
IsSome(q) == q.numer >= 0

\* Ratio::new: reduced by the gcd
ratio_new(n, d) ==
  LET g == gcd(n, d) IN [numer |-> n \div g, denom |-> d \div g]

ratio_is_zero(q) == q.numer = 0
\* Ord for Ratio: an exact comparison
ratio_lt(l, r) == l.numer * r.denom < r.numer * l.denom

\* Ratio::checked_add: both numerators are scaled to the lcm of the denominators
ratio_checked_add(l, r) ==
  LET g == gcd(l.denom, r.denom)
      lcm == u_checked_mul(l.denom \div g, r.denom)
  IN  IF lcm < 0 THEN NoneRatio
      ELSE LET lhs_numer == u_checked_mul(lcm \div l.denom, l.numer)
               rhs_numer == u_checked_mul(lcm \div r.denom, r.numer)
           IN  IF lhs_numer < 0 \/ rhs_numer < 0 THEN NoneRatio
               ELSE LET n == u_checked_add(lhs_numer, rhs_numer)
                    IN  IF n < 0 THEN NoneRatio ELSE ratio_new(n, lcm)

\* Ratio::checked_sub
ratio_checked_sub(l, r) ==
  LET g == gcd(l.denom, r.denom)
      lcm == u_checked_mul(l.denom \div g, r.denom)
  IN  IF lcm < 0 THEN NoneRatio
      ELSE LET lhs_numer == u_checked_mul(lcm \div l.denom, l.numer)
               rhs_numer == u_checked_mul(lcm \div r.denom, r.numer)
           IN  IF lhs_numer < 0 \/ rhs_numer < 0 THEN NoneRatio
               ELSE LET n == u_checked_sub(lhs_numer, rhs_numer)
                    IN  IF n < 0 THEN NoneRatio ELSE ratio_new(n, lcm)

\* Ratio::checked_mul: cross-reduced before multiplying
ratio_checked_mul(l, r) ==
  LET gcd_ad == gcd(l.numer, r.denom)
      gcd_bc == gcd(l.denom, r.numer)
      n == u_checked_mul(l.numer \div gcd_ad, r.numer \div gcd_bc)
      d == u_checked_mul(l.denom \div gcd_bc, r.denom \div gcd_ad)
  IN  IF n < 0 \/ d < 0 THEN NoneRatio ELSE ratio_new(n, d)

\* Ratio::checked_div
ratio_checked_div(l, r) ==
  IF ratio_is_zero(r) THEN NoneRatio
  ELSE IF l.denom = r.denom THEN ratio_new(l.numer, r.numer)
  ELSE IF l.numer = r.numer THEN ratio_new(r.denom, l.denom)
  ELSE LET gcd_ac == gcd(l.numer, r.numer)
           gcd_bd == gcd(l.denom, r.denom)
           n == u_checked_mul(l.numer \div gcd_ac, r.denom \div gcd_bd)
           d == u_checked_mul(l.denom \div gcd_bd, r.numer \div gcd_ac)
       IN  IF n < 0 \/ d < 0 THEN NoneRatio ELSE ratio_new(n, d)

(***************************************************************************)
(* Fraction = GenericFraction<u64>: Rational(sign, ratio), Infinity(sign)  *)
(* or NaN.  NoneFraction stands for Option::None of the checked operations.*)
(***************************************************************************)
Rational(sign, q) == [kind |-> "Rational", sign |-> sign, numer |-> q.numer, denom |-> q.denom]
Infinity(sign) == [kind |-> "Infinity", sign |-> sign, numer |-> 1, denom |-> 0]
NaN == [kind |-> "NaN", sign |-> "Plus", numer |-> 0, denom |-> 0]
NoneFraction == [kind |-> "None", sign |-> "Plus", numer |-> 0, denom |-> 0]
RatioOf(f) == [numer |-> f.numer, denom |-> f.denom]
Signed(sign, q) == IF IsSome(q) THEN Rational(sign, q) ELSE NoneFraction
Product(ls, rs) == IF ls = rs THEN "Plus" ELSE "Minus"

\* Fraction::from(u64)
from_u64(v) == Rational("Plus", ratio_new(v, 1))

\* CheckedAdd for GenericFraction
checked_add(left, right) ==
  IF left.kind = "NaN" THEN left
  ELSE IF right.kind = "NaN" THEN right
  ELSE IF left.kind = "Infinity"
  THEN IF right.kind = "Infinity" /\ right.sign # left.sign THEN NaN ELSE left
  ELSE IF right.kind = "Infinity" THEN right
  ELSE LET l == RatioOf(left)
           r == RatioOf(right)
       IN  IF left.sign = "Plus" /\ right.sign = "Plus"
           THEN Signed("Plus", ratio_checked_add(l, r))
           ELSE IF left.sign = "Plus"
           THEN IF ratio_lt(l, r) THEN Signed("Minus", ratio_checked_sub(r, l))
                ELSE Signed("Plus", ratio_checked_sub(l, r))
           ELSE IF right.sign = "Plus"
           THEN IF ratio_lt(r, l) THEN Signed("Minus", ratio_checked_sub(l, r))
                ELSE Signed("Plus", ratio_checked_sub(r, l))
           ELSE Signed("Minus", ratio_checked_add(l, r))

\* CheckedSub for GenericFraction
checked_sub(left, right) ==
  IF left.kind = "NaN" THEN left
  ELSE IF right.kind = "NaN" THEN right
  ELSE IF left.kind = "Infinity"
  THEN IF right.kind = "Infinity" /\ right.sign = left.sign THEN NaN ELSE left
  ELSE IF right.kind = "Infinity"
  THEN Infinity(IF right.sign = "Plus" THEN "Minus" ELSE "Plus")
  ELSE LET l == RatioOf(left)
           r == RatioOf(right)
       IN  IF left.sign = "Plus" /\ right.sign = "Plus"
           THEN IF ratio_lt(l, r) THEN Signed("Minus", ratio_checked_sub(r, l))
                ELSE Signed("Plus", ratio_checked_sub(l, r))
           ELSE IF left.sign = "Plus"
           THEN Signed("Plus", ratio_checked_add(l, r))
           ELSE IF right.sign = "Plus"
           THEN Signed("Minus", ratio_checked_add(l, r))
           ELSE IF ratio_lt(l, r) THEN Signed("Plus", ratio_checked_sub(r, l))
                ELSE Signed("Minus", ratio_checked_sub(l, r))

\* CheckedMul for GenericFraction
checked_mul(left, right) ==
  IF left.kind = "NaN" THEN left
  ELSE IF right.kind = "NaN" THEN right
  ELSE IF left.kind = "Infinity" \/ right.kind = "Infinity"
  THEN IF (left.kind = "Rational" /\ left.numer = 0)
          \/ (right.kind = "Rational" /\ right.numer = 0)
       THEN NaN ELSE Infinity(Product(left.sign, right.sign))
  ELSE Signed(Product(left.sign, right.sign),
              ratio_checked_mul(RatioOf(left), RatioOf(right)))

\* CheckedDiv for GenericFraction: a zero divisor gives NaN or Infinity
checked_div(left, right) ==
  IF left.kind = "NaN" THEN left
  ELSE IF right.kind = "NaN" THEN right
  ELSE IF left.kind = "Infinity"
  THEN IF right.kind = "Infinity" THEN NaN
       ELSE Infinity(Product(left.sign, right.sign))
  ELSE IF right.kind = "Infinity" THEN Rational("Plus", ratio_new(0, 1))
  ELSE LET l == RatioOf(left)
           r == RatioOf(right)
       IN  IF ratio_is_zero(l) /\ ratio_is_zero(r) THEN NaN
           ELSE IF ratio_is_zero(r) THEN Infinity(left.sign)
           ELSE IF ratio_is_zero(l) THEN Rational("Plus", l)
           ELSE Signed(Product(left.sign, right.sign), ratio_checked_div(l, r))

(***************************************************************************)
(* EvaluationResult and Operator::apply (structures.rs 12-28).             *)
(***************************************************************************)
Ok(f) == [kind |-> "Ok", val |-> f]
Overflow == [kind |-> "Overflow", val |-> NoneFraction]
ZeroDivision == [kind |-> "ZeroDivision", val |-> NoneFraction]
EvalPanic == [kind |-> "Panic", val |-> NoneFraction]
NoEval == [kind |-> "None", val |-> NoneFraction]

\* Option::ok_or(EvaluationError::Overflow)
ok_or_overflow(f) == IF f.kind = "None" THEN Overflow ELSE Ok(f)

\* a Div that returns whatever checked_div produced
apply_unchecked_div(op, left, right) ==
  CASE op = "Add" -> ok_or_overflow(checked_add(left, right))
    [] op = "Sub" -> ok_or_overflow(checked_sub(left, right))
    [] op = "Mul" -> ok_or_overflow(checked_mul(left, right))
    [] op = "Div" -> ok_or_overflow(checked_div(left, right))

\* a Sub that calls checked_add
apply_sub_adds(op, left, right) ==
  CASE op = "Add" -> ok_or_overflow(checked_add(left, right))
    [] op = "Sub" -> ok_or_overflow(checked_add(left, right))
    [] op = "Mul" -> ok_or_overflow(checked_mul(left, right))
    [] op = "Div" ->
         LET raw == checked_div(left, right)
         IN  IF raw.kind = "None" THEN Overflow
             ELSE IF raw.kind = "Rational" THEN Ok(raw)
             ELSE ZeroDivision

apply(op, left, right) ==
  CASE op = "Add" -> ok_or_overflow(checked_add(left, right))
    [] op = "Sub" -> ok_or_overflow(checked_sub(left, right))
    [] op = "Mul" -> ok_or_overflow(checked_mul(left, right))
    [] op = "Div" ->
         LET raw == checked_div(left, right)
         IN  IF raw.kind = "None" THEN Overflow
             ELSE IF raw.kind = "Rational" THEN Ok(raw)
             ELSE ZeroDivision

(***************************************************************************)
(* Parentheses::apply_ops (structures.rs 98-115), one pass of one tier.    *)
(* A pass is [values, ops, res_values, res_ops, status]: status is "run"   *)
(* while the loop turns, "ok" after it, or "Overflow", "ZeroDivision",     *)
(* "Panic" (an unwrap() of None) when the pass is left early.              *)
(***************************************************************************)
\* lines 99-100
apply_ops_begin(values, ops) ==
  IF values = <<>>
  THEN [values |-> values, ops |-> ops, res_values |-> <<>>, res_ops |-> <<>>,
        status |-> "Panic"]
  ELSE [values |-> Tail(values), ops |-> ops, res_values |-> <<Head(values)>>,
        res_ops |-> <<>>, status |-> "run"]

\* line 102: both pop_front() gave Some
apply_ops_more(it) == it.values # <<>> /\ it.ops # <<>>

\* lines 102-110, one turn of the loop
\* the result pushed without the left operand having been popped
apply_ops_iter_nopop(it, prc) ==
  LET value == Head(it.values)
      op == Head(it.ops)
      popped == [it EXCEPT !.values = Tail(@), !.ops = Tail(@)]
  IN  IF precedence(op) = prc
      THEN LET n == Len(it.res_values)
               r == apply(op, it.res_values[n], value)
           IN  IF r.kind = "Ok"
               THEN [popped EXCEPT !.res_values = Append(it.res_values, r.val)]
               ELSE [popped EXCEPT !.status = r.kind]
      ELSE [popped EXCEPT !.res_values = Append(@, value),
                          !.res_ops = Append(@, op)]

apply_ops_iter(it, prc) ==
  LET value == Head(it.values)
      op == Head(it.ops)
      popped == [it EXCEPT !.values = Tail(@), !.ops = Tail(@)]
  IN  IF precedence(op) = prc
      THEN IF it.res_values = <<>> THEN [popped EXCEPT !.status = "Panic"]
           ELSE LET n == Len(it.res_values)
                    r == apply(op, it.res_values[n], value)
                IN  IF r.kind = "Ok"
                    THEN [popped EXCEPT !.res_values =
                            Append(SubSeq(it.res_values, 1, n - 1), r.val)]
                    ELSE [popped EXCEPT !.res_values = SubSeq(it.res_values, 1, n - 1),
                                        !.status = r.kind]
      ELSE [popped EXCEPT !.res_values = Append(@, value),
                          !.res_ops = Append(@, op)]

\* lines 112-114
apply_ops_end(it) ==
  [it EXCEPT !.values = it.res_values, !.ops = it.res_ops, !.status = "ok"]

RECURSIVE apply_ops_loop(_, _)
apply_ops_loop(it, prc) ==
  IF it.status # "run" THEN it
  ELSE IF apply_ops_more(it) THEN apply_ops_loop(apply_ops_iter(it, prc), prc)
  ELSE apply_ops_end(it)

apply_ops(values, ops, prc) == apply_ops_loop(apply_ops_begin(values, ops), prc)

\* the tiers of the loop "for prc in 0..2" (line 124)
Tiers == 2

(***************************************************************************)
(* Expression::eval and Parentheses::eval (structures.rs 61-68, 117-128)   *)
(* as functions of the tree.                                               *)
(***************************************************************************)
StatusResult(st) ==
  CASE st = "Overflow" -> Overflow [] st = "ZeroDivision" -> ZeroDivision
    [] OTHER -> EvalPanic

\* line 127: values[0]
first_value(values) == IF values = <<>> THEN EvalPanic ELSE Ok(values[1])

RECURSIVE run_tiers(_, _, _)
run_tiers(values, ops, prc) ==
  IF prc >= Tiers THEN first_value(values)
  ELSE LET it == apply_ops(values, ops, prc)
       IN  IF it.status # "ok" THEN StatusResult(it.status)
           ELSE run_tiers(it.values, it.ops, prc + 1)

RECURSIVE eval(_), eval_operands(_, _, _)
\* lines 118-121: [res, values], res the first operand's failure if any
eval_operands(exprs, i, acc) ==
  IF i > Len(exprs) THEN [res |-> NoEval, values |-> acc]
  ELSE LET r == eval(exprs[i])
       IN  IF r.kind # "Ok" THEN [res |-> r, values |-> acc]
           ELSE eval_operands(exprs, i + 1, Append(acc, r.val))

eval(e) ==
  IF e.tag = "Num" THEN Ok(from_u64(e.value))
  ELSE LET o == eval_operands(e.exprs, 1, <<>>)
       IN  IF o.res.kind # "None" THEN o.res
           ELSE run_tiers(o.values, e.operators, 0)

(***************************************************************************)
(* State.  The parser: the input line, the cursor (text, offset), the      *)
(* chain of active parse_paren calls (stack; the innermost is last), the   *)
(* digit run being collected (num), the position in the code (pc) and the  *)
(* returned ParseResult.                                                   *)
(***************************************************************************)
VARIABLES input, text, offset, stack, num, pc, result

(***************************************************************************)
(* The evaluation of the parsed line (main.rs 12-15): the group being      *)
(* evaluated (expr), the index of its next operand (idx), the locals of    *)
(* Parentheses::eval and apply_ops (values, ops, res_values, res_ops,      *)
(* prc), the position in the code (epc), the returned EvaluationResult     *)
(* (eresult) and the calls of Operator::apply made for this group (calls). *)
(***************************************************************************)
VARIABLES expr, idx, values, ops, res_values, res_ops, prc, epc, eresult, calls

(***************************************************************************)
(* One call of Operator::apply: its arguments and what it returned.        *)
(***************************************************************************)
VARIABLES a_op, a_left, a_right, a_res

pvars == <<input, text, offset, stack, num, pc, result>>
evars == <<expr, idx, values, ops, res_values, res_ops, prc, epc, eresult, calls>>
avars == <<a_op, a_left, a_right, a_res>>
vars == <<pvars, evars, avars>>

\* the parser's state as one record, so that a step is a function of it
PState ==
  [text |-> text, offset |-> offset, stack |-> stack, num |-> num,
   pc |-> pc, result |-> result]

PStart(inp) ==
  [text |-> inp, offset |-> 0, stack |-> <<>>, num |-> <<>>,
   pc |-> "parse", result |-> NoResult]

Frame(outermost) == [exprs |-> <<>>, ops |-> <<>>, outermost |-> outermost]
Top(c) == c.stack[Len(c.stack)]
HasChar(c) == c.text # <<>>
Cur(c) == Head(c.text)

\* exprs.push(e) in the innermost active parse_paren
PushExpr(stk, e) ==
  [stk EXCEPT ![Len(stk)].exprs = Append(@, e)]

Fail(c, err) == [c EXCEPT !.pc = "done", !.result = err]
Panic(c) == [c EXCEPT !.pc = "panic"]
\* move the cursor by next(); its unwrap() panics on an exhausted text
Advance(c) ==
  LET n == next(c.text, c.offset)
  IN  IF n.ok THEN [c EXCEPT !.text = n.text, !.offset = n.offset]
      ELSE Panic(c)

(***************************************************************************)
(* parse (parse.rs 15-19)                                                  *)
(***************************************************************************)
ParseBeginG(c) == c.pc = "parse"
ParseBeginF(c) ==
  LET n == skip_whitespace(c.text, c.offset)
  IN  [c EXCEPT !.text = n.text, !.offset = n.offset,
                !.stack = <<Frame(TRUE)>>, !.pc = "parse_expr"]

(***************************************************************************)
(* parse_expr (parse.rs 37-63)                                             *)
(***************************************************************************)
\* line 39-40: a digit starts a number
ExprNumberG(c) == c.pc = "parse_expr" /\ HasChar(c) /\ is_ascii_digit(Cur(c))
ExprNumberF(c) == [c EXCEPT !.num = <<>>, !.pc = "digits"]

\* lines 41-44: one turn of the digit loop
DigitLoopG(c) == c.pc = "digits" /\ HasChar(c) /\ is_ascii_digit(Cur(c))
DigitLoopF(c) ==
  LET d == Cur(c)
      a == Advance(c)
  IN  IF a.pc = "panic" THEN a ELSE [a EXCEPT !.num = Append(c.num, d)]

\* lines 45-53: the loop ends, the run is parsed as u64
DigitsEndG(c) == c.pc = "digits" /\ ~(HasChar(c) /\ is_ascii_digit(Cur(c)))
DigitsEndF(c) ==
  LET v == parse_u64(c.num)
  IN  IF v >= 0
      THEN [c EXCEPT !.stack = PushExpr(c.stack, Num(v)), !.num = <<>>,
                     !.pc = "parse_paren"]
      ELSE Fail(c, ParseOverflow(c.num))

\* lines 54-56: '(' opens a nested parse_paren
\* the nested call made with outermost = true
ExprOpenF_outermost(c) ==
  LET a == Advance(c)
  IN  IF a.pc = "panic" THEN a
      ELSE [a EXCEPT !.stack = Append(c.stack, Frame(TRUE)),
                     !.pc = "parse_expr"]

ExprOpenG(c) == c.pc = "parse_expr" /\ HasChar(c) /\ Cur(c) = "("
ExprOpenF(c) ==
  LET a == Advance(c)
  IN  IF a.pc = "panic" THEN a
      ELSE [a EXCEPT !.stack = Append(c.stack, Frame(FALSE)),
                     !.pc = "parse_expr"]

\* lines 57-58
ExprUnexpectedG(c) ==
  c.pc = "parse_expr" /\ HasChar(c) /\ ~is_ascii_digit(Cur(c)) /\ Cur(c) # "("
ExprUnexpectedF(c) == Fail(c, ExceptedExpr(Cur(c), c.offset))

\* lines 60-61
ExprEndG(c) == c.pc = "parse_expr" /\ ~HasChar(c)
ExprEndF(c) == Fail(c, ExceptedExpr("None", c.offset))

(***************************************************************************)
(* parse_paren (parse.rs 65-93), after its latest operand was pushed       *)
(***************************************************************************)
\* lines 70-74
\* the operator consumed but not pushed
ParenOperatorF_unpushed(c) ==
  LET a == Advance(c)
  IN  IF a.pc = "panic" THEN a ELSE [a EXCEPT !.pc = "parse_expr"]

ParenOperatorG(c) ==
  c.pc = "parse_paren" /\ HasChar(c) /\ from_char(Cur(c)) # "None"
ParenOperatorF(c) ==
  LET op == from_char(Cur(c))
      a == Advance(c)
  IN  IF a.pc = "panic" THEN a
      ELSE [a EXCEPT !.stack[Len(c.stack)].ops = Append(@, op),
                     !.pc = "parse_expr"]

\* lines 76-82
ParenCloseG(c) ==
  c.pc = "parse_paren" /\ HasChar(c) /\ from_char(Cur(c)) = "None" /\ Cur(c) = ")"
ParenCloseF(c) ==
  IF ~Top(c).outermost
  THEN LET a == Advance(c)
           p == Parentheses_new(Top(c).exprs, Top(c).ops)
           rest == SubSeq(c.stack, 1, Len(c.stack) - 1)
       IN  IF a.pc = "panic" \/ p.tag = "Panic" THEN Panic(a)
           ELSE [a EXCEPT !.stack = PushExpr(rest, p), !.pc = "parse_paren"]
  ELSE Fail(c, InvalidCloseParenthese(c.offset))

\* lines 83-84
ParenUnexpectedG(c) ==
  c.pc = "parse_paren" /\ HasChar(c) /\ from_char(Cur(c)) = "None" /\ Cur(c) # ")"
ParenUnexpectedF(c) == Fail(c, ExceptedOp(Cur(c), c.offset))

\* lines 88-92
ParenEndG(c) == c.pc = "parse_paren" /\ ~HasChar(c)
ParenEndF(c) ==
  IF Top(c).outermost
  THEN LET p == Parentheses_new(Top(c).exprs, Top(c).ops)
       IN  IF p.tag = "Panic" THEN Panic(c)
           ELSE [c EXCEPT !.pc = "done", !.result = OkTree(p)]
  ELSE Fail(c, UncloseParentheses)

(***************************************************************************)
(* parse as a function of the text: the steps run to the end.              *)
(***************************************************************************)
PStep(c) ==
  CASE ParseBeginG(c) -> ParseBeginF(c)
    [] ExprNumberG(c) -> ExprNumberF(c)
    [] DigitLoopG(c) -> DigitLoopF(c)
    [] DigitsEndG(c) -> DigitsEndF(c)
    [] ExprOpenG(c) -> ExprOpenF(c)
    [] ExprUnexpectedG(c) -> ExprUnexpectedF(c)
    [] ExprEndG(c) -> ExprEndF(c)
    [] ParenOperatorG(c) -> ParenOperatorF(c)
    [] ParenCloseG(c) -> ParenCloseF(c)
    [] ParenUnexpectedG(c) -> ParenUnexpectedF(c)
    [] ParenEndG(c) -> ParenEndF(c)

RECURSIVE PRun(_)
PRun(c) == IF c.pc \in {"done", "panic"} THEN c ELSE PRun(PStep(c))

parse(inp) == PRun(PStart(inp))

(***************************************************************************)
(* The parser's actions.                                                   *)
(***************************************************************************)
PSet(c) ==
  /\ text' = c.text
  /\ offset' = c.offset
  /\ stack' = c.stack
  /\ num' = c.num
  /\ pc' = c.pc
  /\ result' = c.result
  /\ UNCHANGED <<input, evars, avars>>

ParseBegin == ParseBeginG(PState) /\ PSet(ParseBeginF(PState))
ExprNumber == ExprNumberG(PState) /\ PSet(ExprNumberF(PState))
DigitLoop == DigitLoopG(PState) /\ PSet(DigitLoopF(PState))
DigitsEnd == DigitsEndG(PState) /\ PSet(DigitsEndF(PState))
ExprOpen == ExprOpenG(PState) /\ PSet(ExprOpenF(PState))
ExprUnexpected == ExprUnexpectedG(PState) /\ PSet(ExprUnexpectedF(PState))
ExprEnd == ExprEndG(PState) /\ PSet(ExprEndF(PState))
ParenOperator == ParenOperatorG(PState) /\ PSet(ParenOperatorF(PState))
ParenClose == ParenCloseG(PState) /\ PSet(ParenCloseF(PState))
ParenUnexpected == ParenUnexpectedG(PState) /\ PSet(ParenUnexpectedF(PState))
ParenEnd == ParenEndG(PState) /\ PSet(ParenEndF(PState))

(***************************************************************************)
(* The evaluator's actions: Parentheses::eval of the tree parse returned.  *)
(***************************************************************************)
Pass ==
  [values |-> values, ops |-> ops, res_values |-> res_values,
   res_ops |-> res_ops, status |-> "run"]

\* structures.rs 119-121: one operand is evaluated and pushed, or its error returned
EvalOperand ==
  /\ epc = "operands"
  /\ idx <= Len(expr.exprs)
  /\ LET r == eval(expr.exprs[idx])
     IN  IF r.kind = "Ok"
         THEN /\ values' = Append(values, r.val)
              /\ idx' = idx + 1
              /\ UNCHANGED <<epc, eresult>>
         ELSE /\ eresult' = r
              /\ epc' = IF r.kind = "Panic" THEN "panic" ELSE "done"
              /\ UNCHANGED <<values, idx>>
  /\ UNCHANGED <<expr, ops, res_values, res_ops, prc, calls, pvars, avars>>

\* structures.rs 122-124: the operators are copied and the first tier starts
CollectOps ==
  /\ epc = "operands"
  /\ idx > Len(expr.exprs)
  /\ ops' = expr.operators
  /\ prc' = 0
  /\ epc' = "apply_ops"
  /\ UNCHANGED <<expr, idx, values, res_values, res_ops, eresult, calls, pvars, avars>>

\* structures.rs 99-100
ApplyOpsBegin ==
  /\ epc = "apply_ops"
  /\ LET it == apply_ops_begin(values, ops)
     IN  /\ values' = it.values
         /\ res_values' = it.res_values
         /\ res_ops' = it.res_ops
         /\ epc' = IF it.status = "Panic" THEN "panic" ELSE "loop"
         /\ eresult' = IF it.status = "Panic" THEN EvalPanic ELSE eresult
  /\ UNCHANGED <<expr, idx, ops, prc, calls, pvars, avars>>

\* structures.rs 102-110
ApplyOpsIter ==
  /\ epc = "loop"
  /\ apply_ops_more(Pass)
  /\ LET it == apply_ops_iter(Pass, prc)
         op == Head(ops)
     IN  /\ values' = it.values
         /\ ops' = it.ops
         /\ res_values' = it.res_values
         /\ res_ops' = it.res_ops
         /\ epc' = CASE it.status = "run" -> "loop"
                     [] it.status = "Panic" -> "panic"
                     [] OTHER -> "done"
         /\ eresult' = IF it.status = "run" THEN eresult ELSE StatusResult(it.status)
         /\ calls' = IF precedence(op) = prc /\ res_values # <<>>
                     THEN Append(calls,
                            [op |-> op, left |-> res_values[Len(res_values)],
                             right |-> Head(values),
                             res |-> apply(op, res_values[Len(res_values)], Head(values))])
                     ELSE calls
  /\ UNCHANGED <<expr, idx, prc, pvars, avars>>

\* structures.rs 112-114 and the step of the loop of line 124
ApplyOpsEnd ==
  /\ epc = "loop"
  /\ ~apply_ops_more(Pass)
  /\ LET it == apply_ops_end(Pass)
     IN  /\ values' = it.values
         /\ ops' = it.ops
  /\ res_values' = <<>>
  /\ res_ops' = <<>>
  /\ prc' = prc + 1
  /\ epc' = IF prc + 1 < Tiers THEN "apply_ops" ELSE "return"
  /\ UNCHANGED <<expr, idx, eresult, calls, pvars, avars>>

\* structures.rs 127
EvalReturn ==
  /\ epc = "return"
  /\ eresult' = first_value(values)
  /\ epc' = IF values = <<>> THEN "panic" ELSE "done"
  /\ UNCHANGED <<expr, idx, values, ops, res_values, res_ops, prc, calls, pvars, avars>>

(***************************************************************************)
(* Operator::apply on its own.                                             *)
(***************************************************************************)
\* every canonical Fraction::Rational of the domain
Ratios ==
  {q \in [numer : 0..UMax, denom : 1..UMax] : gcd(q.numer, q.denom) = 1}
Fractions == {Rational(sg, q) : sg \in {"Plus", "Minus"}, q \in Ratios}

Apply ==
  /\ a_op = "None"
  /\ \E op \in Operators, l \in Fractions, r \in Fractions :
       /\ a_op' = op
       /\ a_left' = l
       /\ a_right' = r
       /\ a_res' = apply(op, l, r)
  /\ UNCHANGED <<pvars, evars>>

\* the result is consumed and the next call can be made
ApplyReturn ==
  /\ a_op # "None"
  /\ a_op' = "None"
  /\ a_left' = NoneFraction
  /\ a_right' = NoneFraction
  /\ a_res' = NoEval
  /\ UNCHANGED <<pvars, evars>>

(***************************************************************************)
(* Initial states.                                                         *)
(***************************************************************************)
EvalIdle ==
  /\ expr = NoTree
  /\ idx = 1
  /\ values = <<>>
  /\ ops = <<>>
  /\ res_values = <<>>
  /\ res_ops = <<>>
  /\ prc = 0
  /\ epc = "idle"
  /\ eresult = NoEval
  /\ calls = <<>>

ApplyIdle ==
  /\ a_op = "None"
  /\ a_left = NoneFraction
  /\ a_right = NoneFraction
  /\ a_res = NoEval

RECURSIVE Texts(_)
Texts(n) ==
  IF n = 0 THEN {<<>>}
  ELSE LET shorter == Texts(n - 1)
       IN  shorter \cup {Append(s, ch) : s \in {t \in shorter : Len(t) = n - 1},
                                          ch \in Alphabet}

\* a line of at most MaxLen characters has been read and parse is called
Init ==
  /\ input \in Texts(MaxLen)
  /\ text = input
  /\ offset = 0
  /\ stack = <<>>
  /\ num = <<>>
  /\ pc = "parse"
  /\ result = NoResult
  /\ EvalIdle
  /\ ApplyIdle

Next ==
  \/ ParseBegin
  \/ ExprNumber
  \/ DigitLoop
  \/ DigitsEnd
  \/ ExprOpen
  \/ ExprUnexpected
  \/ ExprEnd
  \/ ParenOperator
  \/ ParenClose
  \/ ParenUnexpected
  \/ ParenEnd

Spec == Init /\ [][Next]_vars

(***************************************************************************)
(* Evaluation of parsed lines.  The lines are written from operands and    *)
(* operator symbols; parse has returned Ok(expr) and eval is called.       *)
(***************************************************************************)
DigitChar(d) ==
  CASE d = 0 -> "0" [] d = 1 -> "1" [] d = 2 -> "2" [] d = 3 -> "3"
    [] d = 4 -> "4" [] d = 5 -> "5" [] d = 6 -> "6" [] d = 7 -> "7"
    [] d = 8 -> "8" [] d = 9 -> "9"

\* the decimal digits of n
RECURSIVE Decimal(_)
Decimal(n) ==
  IF n < 10 THEN <<DigitChar(n)>>
  ELSE Append(Decimal(n \div 10), DigitChar(n % 10))

OperandTexts ==
  {Decimal(0), Decimal(2), Decimal(UMax),
   <<"(", "1", "/", "0", ")">>,
   <<"(">> \o Decimal(UMax) \o <<"+", "1", ")">>,
   <<"(", "1", "-", "2", ")">>}

OperatorChars == {"+", "-", "*", "/"}

RECURSIVE Lines(_)
Lines(n) ==
  IF n = 1 THEN OperandTexts
  ELSE LET shorter == Lines(n - 1)
       IN  shorter \cup {l \o <<o>> \o t : l \in shorter, o \in OperatorChars,
                                           t \in OperandTexts}

InitEval ==
  /\ input \in Lines(MaxOperands)
  /\ \E p \in {parse(input)} :
         /\ text = p.text
         /\ offset = p.offset
         /\ stack = p.stack
         /\ num = p.num
         /\ pc = p.pc
         /\ result = p.result
         /\ p.result.kind = "Ok"
         /\ expr = p.result.tree
  /\ idx = 1
  /\ values = <<>>
  /\ ops = <<>>
  /\ res_values = <<>>
  /\ res_ops = <<>>
  /\ prc = 0
  /\ epc = "operands"
  /\ eresult = NoEval
  /\ calls = <<>>
  /\ ApplyIdle

NextEval ==
  \/ EvalOperand
  \/ CollectOps
  \/ ApplyOpsBegin
  \/ ApplyOpsIter
  \/ ApplyOpsEnd
  \/ EvalReturn

SpecEval == InitEval /\ [][NextEval]_vars

(***************************************************************************)
(* Operator::apply called on every pair of fractions of the domain.        *)
(***************************************************************************)
InitApply ==
  /\ input = <<>>
  /\ text = <<>>
  /\ offset = 0
  /\ stack = <<>>
  /\ num = <<>>
  /\ pc = "idle"
  /\ result = NoResult
  /\ EvalIdle
  /\ ApplyIdle

NextApply ==
  \/ Apply
  \/ ApplyReturn

SpecApply == InitApply /\ [][NextApply]_vars

(***************************************************************************)
(* Notions the properties are stated in, defined on the input line itself. *)
(***************************************************************************)
\* bytes of the UTF-8 encoding of a character
EncodedLen(c) == CASE c = "IDSP" -> 3 [] c = "EACUTE" -> 2 [] OTHER -> 1

RECURSIVE Bytes(_)
Bytes(s) == IF s = <<>> THEN 0 ELSE EncodedLen(Head(s)) + Bytes(Tail(s))

Prefix(s, n) == SubSeq(s, 1, n)

\* the character that starts at byte o of s; "None" when none starts there
CharAt(s, o) ==
  IF \E i \in 1..Len(s) : Bytes(Prefix(s, i - 1)) = o
  THEN s[CHOOSE i \in 1..Len(s) : Bytes(Prefix(s, i - 1)) = o]
  ELSE "None"

IsSpace(c) == c \in {" ", "IDSP"}
IsDigit(c) == c \in {"0", "1", "2", "3", "4", "5", "6", "7", "8", "9"}

\* the part of the input the cursor has passed
Consumed == Prefix(input, Len(input) - Len(text))

\* '(' minus ')' in s
RECURSIVE Depth(_)
Depth(s) ==
  IF s = <<>> THEN 0
  ELSE Depth(Prefix(s, Len(s) - 1))
         + (IF s[Len(s)] = "(" THEN 1 ELSE IF s[Len(s)] = ")" THEN -1 ELSE 0)

Balanced(s) == Depth(s) = 0 /\ \A i \in 0..Len(s) : Depth(Prefix(s, i)) >= 0

Finished == pc = "done"

(***************************************************************************)
(* C3: every offset of a ParseError is an exact byte offset into the       *)
(* input: the offending character starts at that byte and is not           *)
(* whitespace, InvalidCloseParenthese points at a ')', ExceptedExpr(None)  *)
(* at the end of the input; at every step offset + bytes of the remaining  *)
(* text = bytes of the input, and no step decreases offset.                *)
(***************************************************************************)
C3_OffsetState ==
  /\ offset + Bytes(text) = Bytes(input)
  /\ (Finished /\ result.kind \in {"ExceptedExpr", "ExceptedOp"} /\ result.ch # "None")
       => /\ CharAt(input, result.off) = result.ch
          /\ ~IsSpace(result.ch)
  /\ (Finished /\ result.kind = "InvalidCloseParenthese")
       => CharAt(input, result.off) = ")"
  /\ (Finished /\ result.kind = "ExceptedExpr" /\ result.ch = "None")
       => result.off = Bytes(input)

C3_ByteOffsets == [](C3_OffsetState) /\ [][offset' >= offset]_vars

\* an error located after multi-byte whitespace
C3_Witness ==
  /\ Finished
  /\ result.kind = "ExceptedOp"
  /\ result.ch = "EACUTE"
  /\ result.off > Len(input) - Len(text)

(***************************************************************************)
(* C2 (as claimed): a number is one run of consecutive digits, so a line   *)
(* of digits, whitespace, digits is rejected with ExceptedOp at the first  *)
(* digit of the second run.                                                *)
(***************************************************************************)
C2_DigitRunsNotMerged ==
  Finished =>
    \A i \in 1..Len(input), j \in 1..Len(input) :
      ( /\ i < j /\ j < Len(input)
        /\ \A k \in 1..i : IsDigit(input[k])
        /\ \A k \in (i + 1)..j : IsSpace(input[k])
        /\ \A k \in (j + 1)..Len(input) : IsDigit(input[k]) )
      => result = ExceptedOp(input[j + 1], Bytes(Prefix(input, j)))

(***************************************************************************)
(* C4: whitespace between tokens does not change what parse returns: the   *)
(* line and the same line with its whitespace removed (one space kept      *)
(* where it separates two digits) give Ok of the same tree, or neither     *)
(* gives Ok.                                                               *)
(***************************************************************************)
RECURSIVE DropSpace(_)
DropSpace(s) ==
  IF s # <<>> /\ IsSpace(Head(s)) THEN DropSpace(Tail(s)) ELSE s

RECURSIVE Compact(_, _)
Compact(s, prev) ==
  IF s = <<>> THEN <<>>
  ELSE IF IsSpace(Head(s))
  THEN LET rest == DropSpace(s)
       IN  IF IsDigit(prev) /\ rest # <<>> /\ IsDigit(Head(rest))
           THEN <<" ">> \o Compact(rest, " ")
           ELSE Compact(rest, prev)
  ELSE <<Head(s)>> \o Compact(Tail(s), Head(s))

C4_WhitespaceInvariance ==
  Finished =>
    \A q \in {parse(Compact(input, "None")).result} :
      (result.kind = "Ok" \/ q.kind = "Ok")
        => (result.kind = q.kind /\ result.tree = q.tree)

\* an accepted line with whitespace before, between and after its tokens
C4_Witness ==
  /\ Finished
  /\ result.kind = "Ok"
  /\ result.tree.operators # <<>>
  /\ Len(input) >= 5
  /\ IsSpace(input[1])
  /\ IsSpace(input[Len(input)])
  /\ Len(Compact(input, "None")) = 3

(***************************************************************************)
(* C7: a ')' met where an operator is expected with no '(' open gives      *)
(* InvalidCloseParenthese at its byte offset; the end of the input there   *)
(* with a '(' open gives UncloseParentheses; parse returns Ok only at the  *)
(* end of the input with no '(' open, so an accepted line is balanced.     *)
(***************************************************************************)
C7_State ==
  /\ (Finished /\ result.kind = "InvalidCloseParenthese")
       => /\ text # <<>> /\ Head(text) = ")"
          /\ Depth(Consumed) = 0
          /\ result.off = Bytes(Consumed)
  /\ (Finished /\ result.kind = "UncloseParentheses")
       => text = <<>> /\ Depth(input) >= 1
  /\ (Finished /\ result.kind = "Ok")
       => text = <<>> /\ Balanced(input)

C7_Step ==
  /\ (pc = "parse_paren" /\ text # <<>> /\ Head(text) = ")" /\ Depth(Consumed) = 0)
       => result' = InvalidCloseParenthese(Bytes(Consumed))
  /\ (pc = "parse_paren" /\ text = <<>> /\ Depth(Consumed) >= 1)
       => result' = UncloseParentheses
  /\ (pc = "parse_paren" /\ text = <<>> /\ Depth(Consumed) = 0)
       => result'.kind = "Ok"
  /\ (result'.kind = "Ok" /\ result.kind # "Ok")
       => (pc = "parse_paren" /\ text = <<>> /\ Depth(Consumed) = 0)

C7_ParenthesisMatching == [](C7_State) /\ [][C7_Step]_vars

\* a stray ')' after a group that was opened and closed
C7_Witness ==
  /\ Finished
  /\ result.kind = "InvalidCloseParenthese"
  /\ result.off > 0
  /\ \E i \in 1..Len(Consumed) : Consumed[i] = "("

(***************************************************************************)
(* C8: parse never panics and always returns; every Group of a returned    *)
(* tree has one operand more than operators; while parsing, each active    *)
(* parse_paren holds as many operands as operators when an operand is      *)
(* awaited and one more when an operator is awaited.                       *)
(***************************************************************************)
RECURSIVE GroupInvariant(_)
GroupInvariant(e) ==
  \/ e.tag = "Num"
  \/ /\ e.tag = "Parentheses"
     /\ Len(e.exprs) >= 1
     /\ Len(e.exprs) = Len(e.operators) + 1
     /\ \A i \in 1..Len(e.exprs) : GroupInvariant(e.exprs[i])

C8_NoPanicGroupInvariant ==
  /\ pc # "panic"
  /\ (Finished /\ result.kind = "Ok") => GroupInvariant(result.tree)
  /\ pc \in {"parse_expr", "digits", "parse_paren"} =>
       /\ stack # <<>>
       /\ \A i \in 1..Len(stack) :
            /\ \A k \in 1..Len(stack[i].exprs) : GroupInvariant(stack[i].exprs[k])
            /\ Len(stack[i].exprs) = Len(stack[i].ops)
                 + (IF i = Len(stack) /\ pc = "parse_paren" THEN 1 ELSE 0)
  /\ pc \in {"parse", "parse_expr", "digits", "parse_paren"} => ENABLED Next
  /\ pc \in {"digits"} => num # <<>> \/ (text # <<>> /\ IsDigit(Head(text)))

\* an accepted line with a nested group and an operator
C8_Witness ==
  /\ Finished
  /\ result.kind = "Ok"
  /\ result.tree.operators # <<>>
  /\ \E i \in 1..Len(result.tree.exprs) : result.tree.exprs[i].tag = "Parentheses"

(***************************************************************************)
(* Exact rational arithmetic on unbounded integers, and the standard       *)
(* reading of a group: a sum or difference of terms taken left to right,   *)
(* each term a product or quotient of operands taken left to right.        *)
(* A rational is [n, d] in lowest terms with d > 0; d = 0 is "undefined"   *)
(* (a division by zero).                                                   *)
(***************************************************************************)
Abs(x) == IF x < 0 THEN -x ELSE x
Undefined == [n |-> 0, d |-> 0]
Q(n, d) ==
  IF d = 0 THEN Undefined
  ELSE LET g == gcd(Abs(n), Abs(d))
           sg == IF d < 0 THEN -1 ELSE 1
       IN  [n |-> sg * (n \div g), d |-> sg * (d \div g)]

QOp(op, a, b) ==
  IF a.d = 0 \/ b.d = 0 THEN Undefined
  ELSE CASE op = "Add" -> Q(a.n * b.d + b.n * a.d, a.d * b.d)
         [] op = "Sub" -> Q(a.n * b.d - b.n * a.d, a.d * b.d)
         [] op = "Mul" -> Q(a.n * b.n, a.d * b.d)
         [] op = "Div" -> Q(a.n * b.d, a.d * b.n)

\* the rational a Fraction::Rational denotes
ValueOf(f) == Q(IF f.sign = "Minus" THEN -f.numer ELSE f.numer, f.denom)
Fits(q) == q.d # 0 /\ Abs(q.n) <= UMax /\ q.d <= UMax

IsAdditive(op) == op \in {"Add", "Sub"}

RECURSIVE ExactTree(_), ExactSum(_, _), ExactTerm(_, _)
ExactTree(e) ==
  IF e.tag = "Num" THEN Q(e.value, 1) ELSE ExactSum(e.exprs, e.operators)

ExactSum(xs, os) ==
  IF \E k \in 1..Len(os) : IsAdditive(os[k])
  THEN LET k == CHOOSE j \in 1..Len(os) :
                  IsAdditive(os[j]) /\ \A m \in (j + 1)..Len(os) : ~IsAdditive(os[m])
       IN  QOp(os[k], ExactSum(SubSeq(xs, 1, k), SubSeq(os, 1, k - 1)),
                      ExactTerm(SubSeq(xs, k + 1, Len(xs)), SubSeq(os, k + 1, Len(os))))
  ELSE ExactTerm(xs, os)

ExactTerm(xs, os) ==
  IF os = <<>> THEN ExactTree(xs[1])
  ELSE LET m == Len(os)
       IN  QOp(os[m], ExactTerm(SubSeq(xs, 1, m), SubSeq(os, 1, m - 1)),
                      ExactTree(xs[m + 1]))

EvalFinished == epc = "done"
OperandsOk(e) == \A i \in 1..Len(e.exprs) : eval(e.exprs[i]).kind = "Ok"

(***************************************************************************)
(* C1: a group whose evaluation succeeds evaluates to the value of its     *)
(* standard-precedence reading (Mul/Div runs folded left to right, then    *)
(* the terms folded left to right); when every operand and every applied   *)
(* operation succeeds the evaluation succeeds; a group of one operand      *)
(* evaluates to that operand's value.                                      *)
(***************************************************************************)
C1_StandardPrecedence ==
  EvalFinished =>
    /\ eresult.kind = "Ok" =>
         /\ eresult.val.kind = "Rational"
         /\ ValueOf(eresult.val) = ExactTree(expr)
    /\ (OperandsOk(expr) /\ \A i \in 1..Len(calls) : calls[i].res.kind = "Ok")
         => eresult.kind = "Ok"
    /\ (eresult.kind = "Ok" /\ Len(expr.exprs) = 1)
         => ValueOf(eresult.val) = ExactTree(expr.exprs[1])

\* a Sub followed by a Mul, evaluated successfully: the Mul is applied first
C1_Witness ==
  /\ EvalFinished
  /\ eresult.kind = "Ok"
  /\ expr.operators = <<"Sub", "Mul">>
  /\ Len(calls) = 2
  /\ calls[1].op = "Mul"
  /\ ValueOf(calls[1].left).n > 0
  /\ ValueOf(calls[1].right).n > 0
  /\ calls[2].left # calls[1].left

(***************************************************************************)
(* C9: eval of a parsed tree never panics and returns Ok of a finite       *)
(* rational, Overflow or ZeroDivision; a pass of apply_ops starts and ends *)
(* with one value more than operators; after the Mul/Div pass only Add and *)
(* Sub remain; after the Add/Sub pass one value and no operator remain;    *)
(* every value held is a finite rational.                                  *)
(***************************************************************************)
IsFinite(f) == f.kind = "Rational" /\ f.denom > 0

C9_EvalNeverPanics ==
  /\ epc # "panic"
  /\ eresult.kind # "Panic"
  /\ EvalFinished =>
       \/ eresult.kind \in {"Overflow", "ZeroDivision"}
       \/ eresult.kind = "Ok" /\ IsFinite(eresult.val)
  /\ epc = "apply_ops" => values # <<>> /\ Len(values) = Len(ops) + 1
  /\ epc = "loop" =>
       /\ res_values # <<>>
       /\ Len(res_values) = Len(res_ops) + 1
       /\ Len(values) = Len(ops)
  /\ (epc = "apply_ops" /\ prc = 1) => \A i \in 1..Len(ops) : IsAdditive(ops[i])
  /\ epc = "return" => Len(values) = 1 /\ ops = <<>>
  /\ \A i \in 1..Len(values) : IsFinite(values[i])
  /\ \A i \in 1..Len(res_values) : IsFinite(res_values[i])

\* both passes are over for a group in which a Div and a Sub were applied
C9_Witness ==
  /\ epc = "return"
  /\ Len(expr.exprs) = 3
  /\ Len(calls) = 2
  /\ calls[1].op = "Div"
  /\ calls[2].op = "Sub"

(***************************************************************************)
(* C10: the error a group's eval returns: the error of the leftmost        *)
(* failing operand, with no operator of the group applied; otherwise the   *)
(* first failing Mul/Div from the left; otherwise the first failing        *)
(* Add/Sub from the left.                                                  *)
(***************************************************************************)
\* left fold of vals under os with Operator::apply, stopped by the first failure
RECURSIVE FoldLeft(_, _, _)
FoldLeft(acc, vals, os) ==
  IF os = <<>> \/ acc.kind # "Ok" THEN acc
  ELSE FoldLeft(apply(Head(os), acc.val, Head(vals)), Tail(vals), Tail(os))

\* the positions of the Add/Sub operators of os, ascending
Cuts(os) == {k \in 1..Len(os) : IsAdditive(os[k])}
\* the t-th term (maximal Mul/Div run) of the group: its first and last operand
TermFirst(os, t) ==
  IF t = 1 THEN 1
  ELSE 1 + CHOOSE k \in Cuts(os) : Cardinality({j \in Cuts(os) : j <= k}) = t - 1
TermLast(os, t) ==
  IF t = Cardinality(Cuts(os)) + 1 THEN Len(os) + 1
  ELSE CHOOSE k \in Cuts(os) : Cardinality({j \in Cuts(os) : j <= k}) = t
TermResult(vals, os, t) ==
  LET a == TermFirst(os, t)
      b == TermLast(os, t)
  IN  FoldLeft(Ok(vals[a]), SubSeq(vals, a + 1, b), SubSeq(os, a, b - 1))

ExpectedOutcome(e) ==
  LET rs == [i \in 1..Len(e.exprs) |-> eval(e.exprs[i])]
      bad == {i \in 1..Len(e.exprs) : rs[i].kind # "Ok"}
  IN  IF bad # {}
      THEN rs[CHOOSE i \in bad : \A j \in bad : i <= j]
      ELSE LET vals == [i \in 1..Len(e.exprs) |-> rs[i].val]
               os == e.operators
               nterms == Cardinality(Cuts(os)) + 1
               terms == [t \in 1..nterms |-> TermResult(vals, os, t)]
               badterms == {t \in 1..nterms : terms[t].kind # "Ok"}
           IN  IF badterms # {}
               THEN terms[CHOOSE t \in badterms : \A u \in badterms : t <= u]
               ELSE FoldLeft(terms[1],
                             [t \in 1..(nterms - 1) |-> terms[t + 1].val],
                             [t \in 1..(nterms - 1) |->
                                os[CHOOSE k \in Cuts(os) :
                                     Cardinality({j \in Cuts(os) : j <= k}) = t]])

C10_ErrorOrder ==
  EvalFinished =>
    /\ eresult.kind = ExpectedOutcome(expr).kind
    /\ ~OperandsOk(expr) => calls = <<>>
    /\ (OperandsOk(expr) /\ eresult.kind # "Ok")
         => /\ calls # <<>>
            /\ calls[Len(calls)].res = eresult
            /\ \A i \in 1..(Len(calls) - 1) : calls[i].res.kind = "Ok"
            /\ \A i \in 1..Len(calls), j \in 1..Len(calls) :
                 (i < j /\ IsAdditive(calls[i].op)) => IsAdditive(calls[j].op)

\* a division by zero to the right of an addition that would overflow
C10_Witness ==
  /\ EvalFinished
  /\ eresult.kind = "ZeroDivision"
  /\ expr.operators = <<"Add", "Div">>
  /\ OperandsOk(expr)
  /\ apply("Add", eval(expr.exprs[1]).val, eval(expr.exprs[2]).val).kind = "Overflow"

(***************************************************************************)
(* C5: Operator::apply(Div, left, right) returns ZeroDivision exactly when *)
(* right is zero, whatever left is (zero included): never Ok or Overflow   *)
(* for a zero divisor, never ZeroDivision for another one.                 *)
(***************************************************************************)
Applied == a_op # "None"

C5_ZeroDivision ==
  (Applied /\ a_op = "Div") =>
    /\ ValueOf(a_right).n = 0 => a_res = ZeroDivision
    /\ ValueOf(a_right).n # 0 => a_res.kind \in {"Ok", "Overflow"}

\* 0/0
C5_Witness ==
  /\ Applied
  /\ a_op = "Div"
  /\ ValueOf(a_left).n = 0
  /\ ValueOf(a_right).n = 0
  /\ a_res = ZeroDivision

(***************************************************************************)
(* C6 (as claimed): apply returns Overflow exactly when the exact result   *)
(* in reduced form does not fit the domain, and Ok of it otherwise.        *)
(***************************************************************************)
ExactApplied == QOp(a_op, ValueOf(a_left), ValueOf(a_right))
ZeroDivisor == a_op = "Div" /\ ValueOf(a_right).n = 0

Lcm(a, b) == (a * b) \div gcd(a, b)
MagnitudesAdd ==
  \/ a_op = "Add" /\ a_left.sign = a_right.sign
  \/ a_op = "Sub" /\ a_left.sign # a_right.sign
ScaledUnfit ==
  LET m == Lcm(a_left.denom, a_right.denom)
      s1 == a_left.numer * (m \div a_left.denom)
      s2 == a_right.numer * (m \div a_right.denom)
  IN  \/ m > UMax
      \/ s1 > UMax
      \/ s2 > UMax
      \/ MagnitudesAdd /\ s1 + s2 > UMax

====
